---- MODULE Spec2Model ----
(***************************************************************************)
(* Model of src/app.py: a Streamlit script that is re-executed top to       *)
(* bottom on every rerun of one user session.  The state is                 *)
(* st.session_state (history, chat_session, last_audio_id, client,          *)
(* last_audio_played), the position of the running script (pc), the local   *)
(* variables of send_message_with_retry, and what the script did to the     *)
(* outside world (temporary files, chats created, errors displayed).        *)
(*                                                                          *)
(* Text is a sequence of characters.  A character is a one-element string;  *)
(* a quoted JSON string literal and the fixed pieces of an f-string are     *)
(* kept as one element each (the code never cuts inside one of them: it     *)
(* only removes the 7 characters of "```json" and the 3 of "```").          *)
(* None and "" of response.text are both the empty sequence: the code only  *)
(* tests their truth value.                                                 *)
(***************************************************************************)
EXTENDS Integers, Sequences, FiniteSets, TLC

\* ------------------------------------------------------------ bounds
\* user-triggered reruns of the script in one session
MaxReruns == 2

\* ------------------------------------------------------------ program constants
\* send_message_with_retry(chat, *args, retries=3, **kwargs)
retries == 3
\* wait_time = 2 ** (i + 1)
BackoffBase == 2
\* text_resp[7:]
FenceOpenLen == 7
\* text_resp[:-3]
FenceCloseLen == 3
\* st.session_state.client = None / chat_session = None
NoHandle == 0

None == "None"

\* ------------------------------------------------------------ strings
Max(a, b) == IF a > b THEN a ELSE b

RECURSIVE Pow(_, _)
Pow(b, n) == IF n = 0 THEN 1 ELSE b * Pow(b, n - 1)

\* s[k:] of Python for 0 <= k
DropFirst(s, k) == SubSeq(s, k + 1, Len(s))

\* s[:-k] of Python for 0 < k
DropLast(s, k) == SubSeq(s, 1, Max(Len(s) - k, 0))

\* str.startswith / str.endswith
startswith(s, p) == Len(s) >= Len(p) /\ SubSeq(s, 1, Len(p)) = p

endswith(s, p) == Len(s) >= Len(p) /\ SubSeq(s, Len(s) - Len(p) + 1, Len(s)) = p

Whitespace == {" ", "\n"}

RECURSIVE lstrip(_)
lstrip(s) == IF s # <<>> /\ Head(s) \in Whitespace THEN lstrip(Tail(s)) ELSE s

RECURSIVE rstrip(_)
rstrip(s) ==
    IF s # <<>> /\ s[Len(s)] \in Whitespace THEN rstrip(SubSeq(s, 1, Len(s) - 1)) ELSE s

\* str.strip()
strip(s) == rstrip(lstrip(s))

\* The grave accent character (the parser accepts none inside a string).
Backtick == "<backtick>"

FenceOpen == <<Backtick, Backtick, Backtick, "j", "s", "o", "n">>

FenceClose == <<Backtick, Backtick, Backtick>>

\* StripFenceOpen cutting one character too few
StripFenceOpen_OffByOne(s) ==
    IF startswith(s, FenceOpen) THEN DropFirst(s, FenceOpenLen - 1) ELSE s

\* lines 235-239: strip, then drop a leading ```json and a trailing ```
StripFenceOpen(s) == IF startswith(s, FenceOpen) THEN DropFirst(s, FenceOpenLen) ELSE s

StripFenceClose(s) == IF endswith(s, FenceClose) THEN DropLast(s, FenceCloseLen) ELSE s

StripFence(text) == StripFenceClose(StripFenceOpen(strip(text)))

\* ------------------------------------------------------------ json.loads
\* JSON string literals the model knows, with the Python str each denotes.
JsonKeys == {"\"transcription\"", "\"analysis\"", "\"response_italian\""}

JsonLits == JsonKeys \cup {"\"Ciao\"", "\"ok\"", "\"Come stai?\"", "\"Bene\""}

Unquote(lit) ==
    CASE lit = "\"transcription\"" -> <<"transcription">>
      [] lit = "\"analysis\"" -> <<"analysis">>
      [] lit = "\"response_italian\"" -> <<"response_italian">>
      [] lit = "\"Ciao\"" -> <<"Ciao">>
      [] lit = "\"ok\"" -> <<"ok">>
      [] lit = "\"Come stai?\"" -> <<"Come stai?">>
      [] lit = "\"Bene\"" -> <<"Bene">>

\* The members of an object, "key":"value" separated by commas, as a sequence
\* of <<key, value>> pairs; ok is FALSE when the text is no member list.
RECURSIVE ParseMembers(_)
ParseMembers(s) ==
    IF Len(s) < 3 \/ s[1] \notin JsonLits \/ s[2] # ":" \/ s[3] \notin JsonLits
    THEN [ok |-> FALSE, ms |-> <<>>]
    ELSE LET pair == <<Unquote(s[1]), Unquote(s[3])>>
             rest == DropFirst(s, 3)
         IN  IF rest = <<>> THEN [ok |-> TRUE, ms |-> <<pair>>]
             ELSE IF Head(rest) # "," THEN [ok |-> FALSE, ms |-> <<>>]
             ELSE LET more == ParseMembers(Tail(rest))
                  IN  [ok |-> more.ok, ms |-> IF more.ok THEN <<pair>> \o more.ms ELSE <<>>]

\* json.loads: kind "object" with its members, another JSON value ("array",
\* "string"), or "error" (json.JSONDecodeError).  Whitespace around the value
\* is allowed.
json_loads(text) ==
    LET s == strip(text)
    IN  IF Len(s) >= 2 /\ s[1] = "{" /\ s[Len(s)] = "}"
        THEN LET inner == SubSeq(s, 2, Len(s) - 1)
                 r == IF inner = <<>> THEN [ok |-> TRUE, ms |-> <<>>] ELSE ParseMembers(inner)
             IN  IF r.ok THEN [kind |-> "object", members |-> r.ms]
                 ELSE [kind |-> "error", members |-> <<>>]
        ELSE IF s = <<"[", "]">> THEN [kind |-> "array", members |-> <<>>]
        ELSE IF Len(s) = 1 /\ s[1] \in JsonLits THEN [kind |-> "string", members |-> <<>>]
        ELSE [kind |-> "error", members |-> <<>>]

\* dict_get without the default: data.get(key) gives None for a missing key,
\* which the f-string and the Turn show as "None"
dict_get_NoDefault(ms, key) ==
    IF \E k \in DOMAIN ms : ms[k][1] = key
    THEN ms[CHOOSE k \in DOMAIN ms : ms[k][1] = key /\ \A j \in DOMAIN ms : ms[j][1] = key => j <= k][2]
    ELSE <<"None">>

\* dict.get(key, ""): the value of the last member with that key, else "".
RECURSIVE dict_get(_, _)
dict_get(ms, key) ==
    IF ms = <<>> THEN <<>>
    ELSE IF ms[Len(ms)][1] = key THEN ms[Len(ms)][2]
    ELSE dict_get(SubSeq(ms, 1, Len(ms) - 1), key)

\* ------------------------------------------------------------ model replies
\* What the remote model can answer to the turn prompt: a JSON value
\* serialised to text, delivered plain or wrapped in a markdown fence, or
\* text that is no JSON at all.
Quote(str) ==
    CASE str = <<"transcription">> -> "\"transcription\""
      [] str = <<"analysis">> -> "\"analysis\""
      [] str = <<"response_italian">> -> "\"response_italian\""
      [] str = <<"Ciao">> -> "\"Ciao\""
      [] str = <<"ok">> -> "\"ok\""
      [] str = <<"Come stai?">> -> "\"Come stai?\""
      [] str = <<"Bene">> -> "\"Bene\""

RECURSIVE MembersText(_)
MembersText(ms) ==
    IF ms = <<>> THEN <<>>
    ELSE <<Quote(ms[1][1]), ":", Quote(ms[1][2])>>
         \o (IF Len(ms) = 1 THEN <<>> ELSE <<",">> \o MembersText(Tail(ms)))

\* json.dumps of an object given as its members
ObjectText(ms) == <<"{">> \o MembersText(ms) \o <<"}">>

KeyT == <<"transcription">>

KeyA == <<"analysis">>

KeyR == <<"response_italian">>

\* the reply of the specification's example, and replies lacking keys
FullObject == <<<<KeyT, <<"Ciao">>>>, <<KeyA, <<"ok">>>>, <<KeyR, <<"Come stai?">>>>>>

NoAnalysisObject == <<<<KeyR, <<"Bene">>>>, <<KeyT, <<"Ciao">>>>>>

NoReplyObject == <<<<KeyT, <<"Ciao">>>>, <<KeyA, <<"ok">>>>>>

Objects == {FullObject, NoAnalysisObject, NoReplyObject, <<>>}

\* the ways a JSON text j reaches the client
Wrap(form, j) ==
    CASE form = "plain" -> j
      [] form = "padded" -> <<"\n">> \o j \o <<" ", "\n">>
      [] form = "fenced" -> FenceOpen \o <<"\n">> \o j \o <<"\n">> \o FenceClose
      [] form = "fenced_tight" -> FenceOpen \o j \o FenceClose
      [] form = "fenced_padded" -> <<" ">> \o FenceOpen \o <<"\n">> \o j \o <<"\n">> \o FenceClose \o <<"\n">>
      [] form = "fence_open_only" -> FenceOpen \o <<"\n">> \o j
      [] form = "fence_untagged" -> FenceClose \o <<"\n">> \o j \o <<"\n">> \o FenceClose

JsonFenceForms == {"fenced", "fenced_tight", "fenced_padded"}

Forms == {"plain", "padded", "fence_open_only", "fence_untagged"} \cup JsonFenceForms

\* A reply: the JSON value the model meant (json), how it was delivered (form)
\* and the resulting response.text.
ObjectReplies == {[json |-> "object", members |-> ms, form |-> f, text |-> Wrap(f, ObjectText(ms))] :
                    ms \in Objects, f \in Forms}

OtherReplies ==
    {[json |-> "array", members |-> <<>>, form |-> f, text |-> Wrap(f, <<"[", "]">>)] :
        f \in {"plain", "fenced"}}
    \cup {[json |-> "none", members |-> <<>>, form |-> "plain", text |-> <<"S", "o", "r", "r", "y">>],
          [json |-> "none", members |-> <<>>, form |-> "plain", text |-> <<" ", "\n">>],
          [json |-> "none", members |-> <<>>, form |-> "plain", text |-> <<>>]}

Replies == ObjectReplies \cup OtherReplies

NoReply == [json |-> "none", members |-> <<>>, form |-> "none", text |-> <<>>]

\* the greeting texts the model can answer to the initial prompt
Greetings == {<<"Ciao! Di cosa vuoi parlare?">>, <<>>}

\* ------------------------------------------------------------ errors
\* A failure of chat.send_message: whether the service signalled rate
\* limiting / quota exhaustion, and str(e) as a sequence of words.
Err429 == [quota |-> TRUE, msg |-> <<"429", "RESOURCE", "_", "EXHAUSTED">>]

Err404 == [quota |-> FALSE, msg |-> <<"404", "Resource", "not", "found">>]

Err500 == [quota |-> FALSE, msg |-> <<"500", "INTERNAL">>]

\* chat is None: 'NoneType' object has no attribute 'send_message'
ErrNoChat == [quota |-> FALSE, msg |-> <<"'NoneType'", "object", "has", "no", "attribute", "'send_message'">>]

SendErrors == {Err429, Err404, Err500}

NoError == [quota |-> FALSE, msg |-> <<>>]

\* str.lower()
lower_word(w) ==
    CASE w = "RESOURCE" -> "resource"
      [] w = "Resource" -> "resource"
      [] w = "EXHAUSTED" -> "exhausted"
      [] w = "INTERNAL" -> "internal"
      [] w = "'NoneType'" -> "'nonetype'"
      [] OTHER -> w

lower(msg) == [k \in DOMAIN msg |-> lower_word(msg[k])]

\* needle in error_str
Contains(str, needle) == \E k \in DOMAIN str : str[k] = needle

\* line 99
LooksLikeQuota(e) ==
    LET error_str == lower(e.msg)
    IN  \/ Contains(error_str, "429")
        \/ Contains(error_str, "resource")
        \/ Contains(error_str, "exhausted")
        \/ Contains(error_str, "quota")

\* ShouldRetry without the continue: every failure is raised
ShouldRetry_Never(i, e) == FALSE

\* ShouldRetry without the bound on the last attempt
ShouldRetry_NoBound(i, e) == LooksLikeQuota(e)

\* line 100: another attempt follows the failure of attempt i (0-based)
ShouldRetry(i, e) == LooksLikeQuota(e) /\ i < retries - 1

\* WaitTime with the exponent off by one: 1, 2, 4
WaitTime_FromOne(i) == Pow(BackoffBase, i)

\* line 101
WaitTime(i) == Pow(BackoffBase, i + 1)

\* ------------------------------------------------------------ pure steps of main()
\* lines 232-244: the reply text validated and parsed
ParseReply(text) ==
    IF text = <<>> THEN [status |-> "ValueError", t |-> <<>>, a |-> <<>>, r |-> <<>>]
    ELSE LET data == json_loads(StripFence(text))
         IN  CASE data.kind = "error" ->
                    [status |-> "JSONDecodeError", t |-> <<>>, a |-> <<>>, r |-> <<>>]
               [] data.kind = "object" ->
                    [status |-> "ok",
                     t |-> dict_get(data.members, KeyT),
                     a |-> dict_get(data.members, KeyA),
                     r |-> dict_get(data.members, KeyR)]
               [] OTHER ->
                    [status |-> "AttributeError", t |-> <<>>, a |-> <<>>, r |-> <<>>]

\* lines 247-251
UserTurn(t, a) ==
    [role |-> "user", audio |-> None,
     text |-> <<"**Transcription:** ">> \o t \o <<"  \n**Analysis:** ">> \o a]

\* lines 255-259 and 145-149
ModelTurn(text, audio) == [role |-> "model", text |-> text, audio |-> audio]

\* lines 111-113: gTTS writes the speech unless the text is empty or the
\* service fails
gTTS(text, tts_ok) == text # <<>> /\ tts_ok

\* text_to_audio returning the buffer even when synthesis failed
text_to_audio_ReturnsBuffer(text, tts_ok) == "mp3"

\* lines 107-120: gTTS raises on empty text or when the service fails; the
\* exception is caught and None returned
text_to_audio(text, tts_ok) == IF gTTS(text, tts_ok) THEN "mp3" ELSE None

\* hash(audio_bytes): a fingerprint narrower than the bytes, so two
\* recordings can share one
AudioInputs == {"wavA", "wavB", "wavC"}

hash(bytes) ==
    CASE bytes = "wavA" -> "h1"
      [] bytes = "wavB" -> "h2"
      [] bytes = "wavC" -> "h1"

\* InitGuard without the test of the stored client
InitGuard_NoClientTest(key, cl) == key

\* line 124: the guard of init_chat
InitGuard(key, cl) == key /\ cl = NoHandle

\* IsNewAudio without the comparison: every delivery is processed
IsNewAudio_Always(last, h) == TRUE

\* line 203
IsNewAudio(last, h) == last # h

\* ------------------------------------------------------------ state
VARIABLES
    history,            \* st.session_state.history
    chat_session,       \* st.session_state.chat_session (NoHandle: None)
    last_audio_id,      \* st.session_state.last_audio_id
    client,             \* st.session_state.client (NoHandle: None)
    last_audio_played,  \* st.session_state.last_audio_played (NeverPlayed: absent)
    api_key,            \* whether GOOGLE_API_KEY is configured
    pc,                 \* where the script is; "idle": waiting for a rerun
    audio_data,         \* bytes mic_recorder returns in this run
    prev_audio,         \* bytes mic_recorder returned in the run before
    i,                  \* loop index of send_message_with_retry
    calls,              \* chat.send_message calls of the current request
    sleeps,             \* time.sleep arguments of the current request
    errs,               \* exceptions chat.send_message raised in the current request
    raised,             \* exception send_message_with_retry raised to its caller
    sent_on,            \* chat handles chat.send_message was called on
    reply,              \* what the remote model answered to the current request
    response,           \* response.text
    tmp_files,          \* temporary files on disk
    tmp_made,           \* temporary files created so far
    tmp_wav_path,       \* the temporary file of this run (0: none)
    chats_created,      \* client.chats.create calls that returned a chat
    greeting_requests,  \* send_message_with_retry calls of init_chat
    shown,              \* errors displayed in this run
    outcome,            \* how the turn pipeline of this run ended
    hist0,              \* history when this run, then its turn pipeline, started
    synth,              \* how the last text_to_audio call of this run ended
    autoplay,           \* index of the Turn autoplayed by this run's render (0: none)
    reruns,             \* user-triggered reruns so far
    autoplayed,         \* indices of the Turns autoplayed so far
    prev_outcome        \* how the turn pipeline of the run before ended

vars == <<history, chat_session, last_audio_id, client, last_audio_played, api_key,
          pc, audio_data, prev_audio, i, calls, sleeps, errs, raised, sent_on, reply,
          response, tmp_files, tmp_made, tmp_wav_path, chats_created,
          greeting_requests, shown, outcome, hist0, synth, autoplay, reruns,
                   autoplayed, prev_outcome>>

session == <<history, chat_session, last_audio_id, client, last_audio_played, api_key>>

request == <<i, calls, sleeps, errs, raised, sent_on, reply, response>>

files == <<tmp_files, tmp_made, tmp_wav_path>>

\* st.session_state.get("last_audio_played") is None
NeverPlayed == -1

\* lines 29-38 and 41-48
Init ==
    /\ history = <<>>
    /\ chat_session = NoHandle
    /\ last_audio_id = None
    /\ client = NoHandle
    /\ last_audio_played = NeverPlayed
    /\ api_key \in BOOLEAN
    /\ pc = "idle"
    /\ audio_data = None
    /\ prev_audio = None
    /\ i = 0
    /\ calls = 0
    /\ sleeps = <<>>
    /\ errs = <<>>
    /\ raised = NoError
    /\ sent_on = {}
    /\ reply = NoReply
    /\ response = <<>>
    /\ tmp_files = {}
    /\ tmp_made = 0
    /\ tmp_wav_path = 0
    /\ chats_created = 0
    /\ greeting_requests = 0
    /\ shown = {}
    /\ outcome = "none"
    /\ hist0 = <<>>
    /\ synth = "none"
    /\ autoplay = 0
    /\ reruns = 0
    /\ autoplayed = {}
    /\ prev_outcome = "none"

\* line 91: send_message_with_retry is entered, its locals are fresh
BeginRequest ==
    /\ i' = 0
    /\ calls' = 0
    /\ sleeps' = <<>>
    /\ errs' = <<>>
    /\ raised' = NoError
    /\ reply' = NoReply
    /\ response' = <<>>

\* a script run starts: nothing displayed yet, no request made yet
BeginRun ==
    /\ BeginRequest
    /\ tmp_wav_path' = 0
    /\ outcome' = "none"
    /\ hist0' = history
    /\ synth' = "none"
    /\ autoplay' = 0
    /\ prev_audio' = audio_data
    /\ prev_outcome' = outcome

\* The user interacts with the page (records audio a, or anything else that
\* makes mic_recorder return a again): the script runs from the top.
\* lines 46-48: without an API key the script stops before main().
StartRerun(a) ==
    /\ pc = "idle"
    /\ reruns < MaxReruns
    /\ reruns' = reruns + 1
    /\ audio_data' = a
    /\ BeginRun
    /\ IF api_key
       THEN pc' = "init" /\ shown' = {}
       ELSE pc' = "idle" /\ shown' = {"Missing Google API Key"}
    /\ UNCHANGED <<session, sent_on, tmp_files, tmp_made, chats_created, greeting_requests,
                   autoplayed>>

\* line 265: st.rerun() restarts the script at once; mic_recorder returns
\* the same recording again
ForcedRerun ==
    /\ pc = "rerun"
    /\ pc' = "init"
    /\ shown' = {}
    /\ BeginRun
    /\ UNCHANGED <<session, audio_data, sent_on, tmp_files, tmp_made, chats_created,
                   greeting_requests, reruns,
                   autoplayed>>

\* ------------------------------------------------------------ init_chat
\* line 124: the guard is false, the body is skipped
InitSkip ==
    /\ pc = "init"
    /\ ~InitGuard(api_key, client)
    /\ pc' = "render"
    /\ UNCHANGED <<session, audio_data, prev_audio, request, files, chats_created,
                   greeting_requests, shown, outcome, hist0, synth, autoplay, reruns,
                   autoplayed, prev_outcome>>

\* line 126 raises: nothing was stored; line 151 displays the error
InitClientFail ==
    /\ pc = "init"
    /\ InitGuard(api_key, client)
    /\ shown' = shown \cup {"Failed to initialize chat"}
    /\ pc' = "render"
    /\ UNCHANGED <<session, audio_data, prev_audio, request, files, chats_created,
                   greeting_requests, outcome, hist0, synth, autoplay, reruns,
                   autoplayed, prev_outcome>>

\* lines 126-127 succeed, line 130 raises: the client is stored, no chat is
InitChatFail ==
    /\ pc = "init"
    /\ InitGuard(api_key, client)
    /\ client' = 1
    /\ shown' = shown \cup {"Failed to initialize chat"}
    /\ pc' = "render"
    /\ UNCHANGED <<history, chat_session, last_audio_id, last_audio_played, api_key,
                   audio_data, prev_audio, request, files, chats_created,
                   greeting_requests, outcome, hist0, synth, autoplay, reruns,
                   autoplayed, prev_outcome>>

\* lines 126-140: client and chat are stored and the greeting is requested
InitGreet ==
    /\ pc = "init"
    /\ InitGuard(api_key, client)
    /\ client' = 1
    /\ chats_created' = chats_created + 1
    /\ chat_session' = chats_created + 1
    /\ greeting_requests' = greeting_requests + 1
    /\ pc' = "init_send"
    /\ BeginRequest
    /\ UNCHANGED <<history, last_audio_id, last_audio_played, api_key, audio_data,
                   prev_audio, sent_on, files, shown, outcome, hist0, synth, autoplay,
                   reruns,
                   autoplayed, prev_outcome>>

\* ------------------------------------------------------------ send_message_with_retry
Sending == pc \in {"init_send", "turn_send"}

\* the texts the model can answer to the request being sent
Answers == IF pc = "init_send"
           THEN {[json |-> "none", members |-> <<>>, form |-> "plain", text |-> g] : g \in Greetings}
           ELSE Replies

\* line 95 returns the response
SendOk(ans) ==
    /\ Sending
    /\ chat_session # NoHandle
    /\ calls' = calls + 1
    /\ sent_on' = sent_on \cup {chat_session}
    /\ reply' = ans
    /\ response' = ans.text
    /\ pc' = IF pc = "init_send" THEN "init_recv" ELSE "turn_recv"
    /\ UNCHANGED <<session, audio_data, prev_audio, i, sleeps, errs, raised, files,
                   chats_created, greeting_requests, shown, outcome, hist0, synth,
                   autoplay, reruns,
                   autoplayed, prev_outcome>>

\* line 105 re-raises e: init_chat displays it (line 151) and returns; main
\* displays it (lines 267-269) and the run ends
Raise(e) ==
    /\ raised' = e
    /\ IF pc = "init_send"
       THEN /\ shown' = shown \cup {"Failed to initialize chat"}
            /\ pc' = "render"
            /\ outcome' = outcome
       ELSE /\ shown' = shown \cup {"Recorder Error"}
            /\ pc' = "idle"
            /\ outcome' = "SendError"

\* line 95 raises e: lines 96-105
SendFail(e) ==
    /\ Sending
    /\ chat_session # NoHandle
    /\ calls' = calls + 1
    /\ sent_on' = sent_on \cup {chat_session}
    /\ errs' = Append(errs, e)
    /\ IF ShouldRetry(i, e)
       THEN /\ sleeps' = Append(sleeps, WaitTime(i))
            /\ i' = i + 1
            /\ UNCHANGED <<raised, shown, pc, outcome>>
       ELSE /\ Raise(e)
            /\ UNCHANGED <<sleeps, i>>
    /\ UNCHANGED <<session, audio_data, prev_audio, reply, response, files,
                   chats_created, greeting_requests, hist0, synth, autoplay, reruns,
                   autoplayed, prev_outcome>>

\* line 95 with chat = None: the attribute lookup raises, no message is sent
SendNoChat ==
    /\ Sending
    /\ chat_session = NoHandle
    /\ errs' = Append(errs, ErrNoChat)
    /\ IF ShouldRetry(i, ErrNoChat)
       THEN /\ sleeps' = Append(sleeps, WaitTime(i))
            /\ i' = i + 1
            /\ UNCHANGED <<raised, shown, pc, outcome>>
       ELSE /\ Raise(ErrNoChat)
            /\ UNCHANGED <<sleeps, i>>
    /\ UNCHANGED <<session, audio_data, prev_audio, calls, sent_on, reply, response,
                   files, chats_created, greeting_requests, hist0, synth, autoplay, reruns,
                   autoplayed, prev_outcome>>

\* lines 144-149: the greeting is appended, with its speech when synthesis works
InitFinish(tts_ok) ==
    /\ pc = "init_recv"
    /\ LET audio_bytes == text_to_audio(response, tts_ok)
       IN  /\ history' = Append(history, ModelTurn(response, audio_bytes))
           /\ shown' = IF audio_bytes = None THEN shown \cup {"TTS Error"} ELSE shown
    /\ synth' = IF gTTS(response, tts_ok) THEN "ok" ELSE "failed"
    /\ pc' = "render"
    /\ UNCHANGED <<chat_session, last_audio_id, client, last_audio_played, api_key,
                   audio_data, prev_audio, request, files, chats_created,
                   greeting_requests, outcome, hist0, autoplay, reruns,
                   autoplayed, prev_outcome>>

\* ------------------------------------------------------------ main: render
\* DoAutoplay without the last_audio_played test
DoAutoplay_EveryRender(h, played) ==
    /\ h # <<>>
    /\ h[Len(h)].audio # None
    /\ h[Len(h)].role = "model"

\* lines 162-179: the last Turn is autoplayed when it is the model's, has
\* audio and the history has grown since the last autoplay
DoAutoplay(h, played) ==
    /\ h # <<>>
    /\ h[Len(h)].audio # None
    /\ h[Len(h)].role = "model"
    /\ played # Len(h)

Render ==
    /\ pc = "render"
    /\ IF DoAutoplay(history, last_audio_played)
       THEN /\ autoplay' = Len(history)
            /\ last_audio_played' = Len(history)
            /\ autoplayed' = autoplayed \cup {Len(history)}
       ELSE /\ autoplay' = 0
            /\ last_audio_played' = last_audio_played
            /\ autoplayed' = autoplayed
    /\ pc' = "mic"
    /\ UNCHANGED <<history, chat_session, last_audio_id, client, api_key, audio_data,
                   prev_audio, request, files, chats_created, greeting_requests, shown,
                   outcome, hist0, synth, reruns,
                   prev_outcome>>

\* ------------------------------------------------------------ main: audio input
\* line 198 is false: no recording, or an empty one
MicNone ==
    /\ pc = "mic"
    /\ audio_data \in {None, ""}
    /\ pc' = "idle"
    /\ UNCHANGED <<session, audio_data, prev_audio, request, files, chats_created,
                   greeting_requests, shown, outcome, hist0, synth, autoplay, reruns,
                   autoplayed, prev_outcome>>

\* line 203 is false: the fingerprint is the one already processed
MicDup ==
    /\ pc = "mic"
    /\ audio_data \notin {None, ""}
    /\ ~IsNewAudio(last_audio_id, hash(audio_data))
    /\ pc' = "idle"
    /\ UNCHANGED <<session, audio_data, prev_audio, request, files, chats_created,
                   greeting_requests, shown, outcome, hist0, synth, autoplay, reruns,
                   autoplayed, prev_outcome>>

\* MicNew without line 204: the fingerprint is not stored before the upload
MicNew_FingerprintNotStored ==
    /\ pc = "mic"
    /\ audio_data \notin {None, ""}
    /\ IsNewAudio(last_audio_id, hash(audio_data))
    /\ tmp_made' = tmp_made + 1
    /\ tmp_wav_path' = tmp_made + 1
    /\ tmp_files' = tmp_files \cup {tmp_made + 1}
    /\ IF client # NoHandle
       THEN pc' = "upload" /\ outcome' = "running"
       ELSE pc' = "idle" /\ outcome' = "NoClient"
    /\ hist0' = history
    /\ UNCHANGED <<history, chat_session, last_audio_id, client, last_audio_played,
                   api_key, audio_data, prev_audio, request, chats_created,
                   greeting_requests, shown, synth, autoplay, reruns, autoplayed,
                   prev_outcome>>

\* lines 204-214: the fingerprint is stored and the bytes written to a new
\* temporary file; without a client nothing else happens
MicNew ==
    /\ pc = "mic"
    /\ audio_data \notin {None, ""}
    /\ IsNewAudio(last_audio_id, hash(audio_data))
    /\ last_audio_id' = hash(audio_data)
    /\ tmp_made' = tmp_made + 1
    /\ tmp_wav_path' = tmp_made + 1
    /\ tmp_files' = tmp_files \cup {tmp_made + 1}
    /\ IF client # NoHandle
       THEN pc' = "upload" /\ outcome' = "running"
       ELSE pc' = "idle" /\ outcome' = "NoClient"
    /\ hist0' = history
    /\ UNCHANGED <<history, chat_session, client, last_audio_played, api_key, audio_data,
                   prev_audio, request, chats_created, greeting_requests, shown, synth,
                   autoplay, reruns,
                   autoplayed, prev_outcome>>

\* line 215 returns the file handle; line 228 starts the generation request
UploadOk ==
    /\ pc = "upload"
    /\ pc' = "turn_send"
    /\ BeginRequest
    /\ UNCHANGED <<session, audio_data, prev_audio, sent_on, files, chats_created,
                   greeting_requests, shown, outcome, hist0, synth, autoplay, reruns,
                   autoplayed, prev_outcome>>

\* line 215 raises: lines 267-269 display the error
UploadFail ==
    /\ pc = "upload"
    /\ shown' = shown \cup {"Recorder Error"}
    /\ outcome' = "UploadFailure"
    /\ pc' = "idle"
    /\ UNCHANGED <<session, audio_data, prev_audio, request, files, chats_created,
                   greeting_requests, hist0, synth, autoplay, reruns,
                   autoplayed, prev_outcome>>

\* ------------------------------------------------------------ main: the reply
\* AppendTurns with the two appends in the wrong order
AppendTurns_ModelFirst(h, parsed, tts_ok) ==
    h \o <<ModelTurn(parsed.r, text_to_audio(parsed.r, tts_ok)),
           UserTurn(parsed.t, parsed.a)>>

\* AppendTurns assigning the list instead of appending to it
AppendTurns_Overwrites(h, parsed, tts_ok) ==
    <<UserTurn(parsed.t, parsed.a),
      ModelTurn(parsed.r, text_to_audio(parsed.r, tts_ok))>>

\* lines 247-259: both Turns appended
AppendTurns(h, parsed, tts_ok) ==
    h \o <<UserTurn(parsed.t, parsed.a),
           ModelTurn(parsed.r, text_to_audio(parsed.r, tts_ok))>>

\* line 262
Unlink(fs, path) == fs \ {path}

\* TurnFail with the user Turn appended before the reply is validated
TurnFail_AppendsFirst ==
    /\ pc = "turn_recv"
    /\ ParseReply(response).status # "ok"
    /\ history' = Append(history, UserTurn(<<>>, <<>>))
    /\ shown' = shown \cup {"Recorder Error"}
    /\ outcome' = ParseReply(response).status
    /\ pc' = "idle"
    /\ UNCHANGED <<chat_session, last_audio_id, client, last_audio_played, api_key,
                   audio_data, prev_audio, request, files, chats_created,
                   greeting_requests, hist0, synth, autoplay, reruns,
                   autoplayed, prev_outcome>>

\* lines 232-244 raise (empty text, no JSON, JSON that is no object): lines
\* 267-269 display the error
TurnFail ==
    /\ pc = "turn_recv"
    /\ ParseReply(response).status # "ok"
    /\ shown' = shown \cup {"Recorder Error"}
    /\ outcome' = ParseReply(response).status
    /\ pc' = "idle"
    /\ UNCHANGED <<session, audio_data, prev_audio, request, files, chats_created,
                   greeting_requests, hist0, synth, autoplay, reruns,
                   autoplayed, prev_outcome>>

\* lines 232-265: the reply parses, both Turns are appended, the temporary
\* file is removed and a rerun is forced
TurnOk(tts_ok) ==
    /\ pc = "turn_recv"
    /\ ParseReply(response).status = "ok"
    /\ LET parsed == ParseReply(response)
       IN  /\ history' = AppendTurns(history, parsed, tts_ok)
           /\ shown' = IF text_to_audio(parsed.r, tts_ok) = None
                       THEN shown \cup {"TTS Error"} ELSE shown
           /\ synth' = IF gTTS(parsed.r, tts_ok) THEN "ok" ELSE "failed"
    /\ tmp_files' = Unlink(tmp_files, tmp_wav_path)
    /\ outcome' = "success"
    /\ pc' = "rerun"
    /\ UNCHANGED <<chat_session, last_audio_id, client, last_audio_played, api_key,
                   audio_data, prev_audio, request, tmp_made, tmp_wav_path,
                   chats_created, greeting_requests, hist0, autoplay, reruns,
                   autoplayed, prev_outcome>>

\* ------------------------------------------------------------ specification
Next ==
    \/ \E a \in AudioInputs \cup {None, ""} : StartRerun(a)
    \/ ForcedRerun
    \/ InitSkip
    \/ InitClientFail
    \/ InitChatFail
    \/ InitGreet
    \/ \E ans \in Answers : SendOk(ans)
    \/ \E e \in SendErrors : SendFail(e)
    \/ SendNoChat
    \/ \E tts_ok \in BOOLEAN : InitFinish(tts_ok)
    \/ Render
    \/ MicNone
    \/ MicDup
    \/ MicNew
    \/ UploadOk
    \/ UploadFail
    \/ TurnFail
    \/ \E tts_ok \in BOOLEAN : TurnOk(tts_ok)

Spec == Init /\ [][Next]_vars

\* ------------------------------------------------------------ properties
\* the value the JSON object the model meant gives to key ("" when it has none)
ValueOf(ms, key) ==
    IF \E k \in DOMAIN ms : ms[k][1] = key
    THEN ms[CHOOSE k \in DOMAIN ms : ms[k][1] = key][2]
    ELSE <<>>

\* part occurs in text
IsInfix(part, text) ==
    \E k \in 0..(Len(text) - Len(part)) : SubSeq(text, k + 1, k + Len(part)) = part

\* the run's turn pipeline got a reply from the model and has ended
TurnReplied ==
    /\ pc \in {"idle", "rerun"}
    /\ outcome \in {"success", "ValueError", "JSONDecodeError", "AttributeError"}

\* the reply text is itself JSON (json.loads accepts surrounding whitespace)
ParseableJson(rp) == rp.json \in {"object", "array"} /\ rp.form \in {"plain", "padded"}

\* history is hist0 plus the user Turn and the model Turn of the reply
TwoTurnsOf(rp) ==
    /\ Len(history) = Len(hist0) + 2
    /\ SubSeq(history, 1, Len(hist0)) = hist0
    /\ LET user == history[Len(hist0) + 1]
           model == history[Len(hist0) + 2]
       IN  /\ user.role = "user"
           /\ user.audio = None
           /\ IsInfix(ValueOf(rp.members, KeyT), user.text)
           /\ IsInfix(ValueOf(rp.members, KeyA), user.text)
           /\ model.role = "model"
           /\ model.text = ValueOf(rp.members, KeyR)

\* C1 as stated: every turn whose upload and generation succeeded and whose
\* reply is non-empty parseable JSON appends the user Turn and the model Turn
C1_AnyJsonAppendsTwo ==
    (TurnReplied /\ ParseableJson(reply)) => (outcome = "success" /\ TwoTurnsOf(reply))

\* C1 (amended): a turn whose upload and generation succeeded and whose reply
\* parses to a JSON object ends successfully, and every successful turn has
\* grown History by exactly the user Turn (no audio, text containing the
\* reply's transcription and analysis) followed by the model Turn (text equal
\* to the reply's response_italian)
C1_SuccessAppendsTwo ==
    /\ (TurnReplied /\ ParseableJson(reply) /\ reply.json = "object") => outcome = "success"
    /\ outcome = "success" => TwoTurnsOf(reply)

C1_Witness ==
    /\ outcome = "success"
    /\ reply.members = FullObject
    /\ reply.form = "plain"
    /\ Len(history) = 3
    /\ IsInfix(<<"Ciao">>, history[2].text)
    /\ IsInfix(<<"ok">>, history[2].text)
    /\ history[3].text = <<"Come stai?">>

FatalOutcomes == {"UploadFailure", "SendError", "ValueError", "JSONDecodeError", "AttributeError"}

\* C2: after every fatal failure of the turn pipeline History is what it was
\* when the pipeline started and the error is displayed
C2_FatalLeavesHistory ==
    outcome \in FatalOutcomes => (pc = "idle" /\ history = hist0 /\ "Recorder Error" \in shown)

C2_Witness ==
    /\ outcome = "ValueError"
    /\ response = <<>>
    /\ hist0 # <<>>
    /\ history = hist0

\* C3: when mic_recorder returns the bytes it returned in the run before, the
\* audio step ends the run without starting the pipeline: no temporary file,
\* no upload, no request, History and the fingerprint unchanged
C3_SameBytesNoOp ==
    [][(pc = "mic" /\ audio_data \in AudioInputs /\ audio_data = prev_audio)
        => /\ pc' = "idle"
           /\ history' = history
           /\ last_audio_id' = last_audio_id
           /\ tmp_made' = tmp_made
           /\ calls' = calls
           /\ outcome' = outcome]_vars

C3_Witness ==
    /\ api_key
    /\ pc = "idle"
    /\ audio_data \in AudioInputs
    /\ audio_data = prev_audio
    /\ last_audio_id = hash(audio_data)
    /\ outcome = "none"
    /\ Len(history) >= 2

ThreeQuotaFailures ==
    /\ Len(errs) >= retries
    /\ \A k \in 1..retries : errs[k].quota

\* C4: three consecutive quota failures of one request: 2 s are slept after
\* the first, 4 s after the second, the third error is raised, and
\* chat.send_message was called 3 times and is not called again
C4_ThreeQuotaFailuresFatal ==
    ThreeQuotaFailures =>
        /\ sleeps = <<2, 4>>
        /\ calls = 3
        /\ Len(errs) = 3
        /\ raised = errs[3]
        /\ ~Sending

C4_Witness ==
    /\ ThreeQuotaFailures
    /\ outcome = "SendError"
    /\ pc = "idle"
    /\ history = hist0

\* C5: when synthesis fails for the reply of an otherwise successful turn,
\* both Turns are appended and the model Turn has the reply text and no audio
C5_SynthesisFailureKeepsTurn ==
    (outcome = "success" /\ synth = "failed") =>
        /\ TwoTurnsOf(reply)
        /\ history[Len(history)].audio = None

C5_Witness ==
    /\ outcome = "success"
    /\ synth = "failed"
    /\ history[Len(history)].text = <<"Come stai?">>
    /\ history[Len(history)].audio = None

\* the script is not running: the run, and with it the pipeline invocation, is over
RunOver == pc \in {"idle", "rerun"}

\* C6: no temporary file outlives the pipeline invocation that created it,
\* whether the invocation succeeded or failed
C6_TempFileDeleted == RunOver => tmp_files = {}

\* the Turns of h that open a conversation: a model Turn that answers no user Turn
GreetingTurns(h) == {k \in DOMAIN h : h[k].role = "model" /\ (k = 1 \/ h[k - 1].role # "user")}

\* C7: over any sequence of reruns at most one chat is created, the greeting
\* is requested at most once and History holds at most one greeting Turn
C7_BootstrapOnce ==
    /\ chats_created <= 1
    /\ greeting_requests <= 1
    /\ Cardinality(GreetingTurns(history)) <= 1
    /\ chat_session \in {NoHandle, 1}

\* a later run skipped the body of init_chat: History still holds the one
\* greeting of the first run
C7_Witness ==
    /\ reruns >= 2
    /\ pc = "render"
    /\ hist0 # <<>>
    /\ history = hist0
    /\ GreetingTurns(history) = {1}
    /\ chats_created = 1
    /\ greeting_requests = 1

\* C8: whenever the turn pipeline sends its generation request,
\* chat_session is the one chat created at bootstrap, and every message of
\* the session went to that chat
C8_OneActiveHandle ==
    pc = "turn_send" =>
        /\ chat_session # NoHandle
        /\ chats_created = 1
        /\ sent_on \subseteq {chat_session}

\* C9: a reply wrapped in a ```json fence is parsed to the values of the same
\* JSON delivered unwrapped, and the turn ends the same way with the same Turns
C9_FencedLikePlain ==
    (TurnReplied /\ reply.form \in JsonFenceForms /\ reply.json \in {"object", "array"}) =>
        LET json_text == IF reply.json = "object" THEN ObjectText(reply.members)
                         ELSE <<"[", "]">>
            plain == ParseReply(Wrap("plain", json_text))
        IN  /\ ParseReply(response) = plain
            /\ outcome = IF plain.status = "ok" THEN "success" ELSE plain.status
            /\ history = IF plain.status = "ok"
                         THEN AppendTurns(hist0, plain, synth = "ok")
                         ELSE hist0
            /\ reply.json = "object" =>
                 /\ plain.status = "ok"
                 /\ plain.t = ValueOf(reply.members, KeyT)
                 /\ plain.a = ValueOf(reply.members, KeyA)
                 /\ plain.r = ValueOf(reply.members, KeyR)

C9_Witness ==
    /\ outcome = "success"
    /\ reply.form = "fenced"
    /\ reply.members = FullObject
    /\ startswith(response, FenceOpen)
    /\ endswith(response, FenceClose)
    /\ history[Len(history)].text = <<"Come stai?">>

\* C10 as stated: the waits taken after the successive failed attempts of a
\* request that failed 3 times on quota are 2 s, 4 s and 8 s
C10_Waits248 == (ThreeQuotaFailures /\ ~Sending) => sleeps = <<2, 4, 8>>

\* C10 (amended): at most 3 attempts are made; the wait after the k-th failed
\* attempt is 2^k seconds for k = 1, 2 and there is none after the third,
\* whose error is raised: the waits of a request are 2 s then 4 s, never 8 s
C10_Backoff ==
    /\ calls <= 3
    /\ Len(errs) <= 3
    /\ Len(sleeps) <= 2
    /\ Len(sleeps) = i
    /\ \A k \in DOMAIN sleeps : sleeps[k] = 2 ^ k
    /\ (ThreeQuotaFailures /\ ~Sending) => sleeps = <<2, 4>>

C10_Witness ==
    /\ ThreeQuotaFailures
    /\ ~Sending
    /\ sleeps = <<2, 4>>
    /\ calls = 3

\* C11: a send failure that is no rate-limit/quota signal is raised at once:
\* one attempt, no sleep, the error itself raised to the caller
C11_NonQuotaNoRetry ==
    (errs # <<>> /\ ~errs[1].quota) =>
        /\ Len(errs) = 1
        /\ calls <= 1
        /\ sleeps = <<>>
        /\ raised = errs[1]
        /\ ~Sending

\* the attempts that failed so far all failed on quota, and fewer than retries did
QuotaFailuresOnly ==
    /\ errs # <<>>
    /\ Len(errs) < retries
    /\ \A k \in DOMAIN errs : errs[k].quota

\* the request of errs, calls and sleeps is the turn's (else the greeting's)
TurnRequest ==
    \/ pc \in {"turn_send", "turn_recv"}
    \/ outcome \in {"success", "SendError", "ValueError", "JSONDecodeError", "AttributeError"}

\* the reply is a JSON object, delivered as JSON text or in a ```json fence
ObjectReply(rp) == rp.json = "object" /\ rp.form \in {"plain", "padded"} \cup JsonFenceForms

\* C12: after 1 or 2 quota failures nothing is raised or displayed; when the
\* next attempt succeeds its response is the one returned, a turn whose reply
\* is a JSON object ends as a successful turn with its two Turns, and the
\* bootstrap appends the greeting it got
C12_QuotaRetriedTransparently ==
    QuotaFailuresOnly =>
        /\ raised = NoError
        /\ IF TurnRequest
           THEN (pc \in {"turn_send", "turn_recv"} \/ outcome = "success")
                    => "Recorder Error" \notin shown
           ELSE "Failed to initialize chat" \notin shown
        /\ Len(sleeps) = Len(errs)
        /\ ~Sending =>
             /\ calls = Len(errs) + 1
             /\ response = reply.text
        /\ (TurnReplied /\ ObjectReply(reply)) => (outcome = "success" /\ TwoTurnsOf(reply))
        /\ pc = "render" =>
             /\ Len(history) = Len(hist0) + 1
             /\ history[Len(history)].role = "model"
             /\ history[Len(history)].text = reply.text

\* a turn that succeeded on its third attempt
C12_Witness ==
    /\ Len(errs) = 2
    /\ errs[1].quota
    /\ errs[2].quota
    /\ calls = 3
    /\ outcome = "success"
    /\ reply.members = FullObject
    /\ history[Len(history)].text = <<"Come stai?">>
    /\ "Recorder Error" \notin shown

\* the keys among transcription, analysis, response_italian the object lacks
MissingKeys(ms) == {key \in {KeyT, KeyA, KeyR} : \A k \in DOMAIN ms : ms[k][1] # key}

\* C13: a JSON object reply lacking some of the three keys does not fail the
\* turn: each missing key counts as "" and both Turns are appended; without
\* response_italian the model Turn has empty text
C13_MissingKeysDefaultEmpty ==
    (TurnReplied /\ ObjectReply(reply) /\ MissingKeys(reply.members) # {}) =>
        LET missing == MissingKeys(reply.members)
            t == IF KeyT \in missing THEN <<>> ELSE ValueOf(reply.members, KeyT)
            a == IF KeyA \in missing THEN <<>> ELSE ValueOf(reply.members, KeyA)
            r == IF KeyR \in missing THEN <<>> ELSE ValueOf(reply.members, KeyR)
        IN  /\ outcome = "success"
            /\ Len(history) = Len(hist0) + 2
            /\ SubSeq(history, 1, Len(hist0)) = hist0
            /\ history[Len(hist0) + 1] =
                 [role |-> "user", audio |-> None,
                  text |-> <<"**Transcription:** ">> \o t \o <<"  \n**Analysis:** ">> \o a]
            /\ history[Len(hist0) + 2].role = "model"
            /\ history[Len(hist0) + 2].text = r

C13_Witness ==
    /\ outcome = "success"
    /\ reply.members = NoReplyObject
    /\ KeyR \in MissingKeys(reply.members)
    /\ Len(history) = Len(hist0) + 2
    /\ history[Len(history)].text = <<>>
    /\ history[Len(history)].audio = None

\* h is an initial part of g
IsPrefix(h, g) == Len(h) <= Len(g) /\ SubSeq(g, 1, Len(h)) = h

\* C14: History is append-only: every step leaves the Turns it held in place
\* and unchanged, and only adds Turns after them
C14_AppendOnly == [][IsPrefix(history, history')]_vars

\* a second turn was appended after the greeting and the first turn
C14_Witness ==
    /\ Len(hist0) = 3
    /\ Len(history) = 5
    /\ IsPrefix(hist0, history)
    /\ outcome = "success"

\* C15: a render autoplays at most the last Turn of History, and only when
\* it is the model's, has audio and was never autoplayed before; a Turn that
\* was autoplayed is rendered with the normal player from then on
C15_AutoplayOnce ==
    [][pc = "render" =>
        /\ autoplay' # 0 =>
             /\ autoplay' = Len(history)
             /\ history[autoplay'].role = "model"
             /\ history[autoplay'].audio # None
             /\ autoplay' \notin autoplayed
        /\ Len(history) \in autoplayed => autoplay' = 0
        /\ autoplayed' \subseteq autoplayed \cup {Len(history)}]_vars

\* a later run rendered the unchanged History: its last Turn, autoplayed
\* before, got the normal player
C15_Witness ==
    /\ pc = "mic"
    /\ autoplay = 0
    /\ history # <<>>
    /\ history = hist0
    /\ Len(history) \in autoplayed
    /\ last_audio_played = Len(history)

\* C16: the fingerprint is stored before the upload, so after a fatal failure
\* for a recording it is that recording's fingerprint, and the same bytes
\* delivered by the next run are skipped: the failed turn is not run again
C16_FingerprintKeptOnFailure ==
    /\ [](outcome \in FatalOutcomes => last_audio_id = hash(audio_data))
    /\ [][(pc = "mic" /\ prev_outcome \in FatalOutcomes /\ audio_data = prev_audio)
           => /\ pc' = "idle"
              /\ history' = history
              /\ last_audio_id' = last_audio_id
              /\ tmp_made' = tmp_made
              /\ calls' = calls
              /\ outcome' = "none"]_vars

\* the run after a failed turn got the same bytes and skipped them
C16_Witness ==
    /\ prev_outcome \in FatalOutcomes
    /\ audio_data = prev_audio
    /\ pc = "idle"
    /\ outcome = "none"
    /\ last_audio_id = hash(audio_data)
    /\ tmp_made = 1

C17_WitnessNoGreeting ==
    /\ Len(history) = 2
    /\ history[1].role = "user"
    /\ RunOver

\* C18: the run forced by st.rerun() after a successful turn gets the same
\* recording, skips it and ends: it starts no pipeline, appends nothing and
\* forces no further rerun
C18_ForcedRerunEnds ==
    prev_outcome = "success" =>
        /\ audio_data = prev_audio
        /\ last_audio_id = hash(audio_data)
        /\ pc \in {"init", "render", "mic", "idle"}
        /\ outcome = "none"
        /\ history = hist0
        /\ tmp_wav_path = 0
        /\ calls = 0

\* the forced run has ended and the script waits for the user
C18_Witness ==
    /\ prev_outcome = "success"
    /\ pc = "idle"
    /\ outcome = "none"
    /\ Len(history) >= 2

\* the bootstrap is not in progress
NotBooting == pc \notin {"init", "init_send", "init_recv"}

\* C19: once the client is stored the body of init_chat never runs again:
\* a chat creation that failed leaves chat_session None and a greeting that
\* failed leaves History without greeting for the rest of the session; while
\* no client is stored (its construction failed) every run attempts the
\* bootstrap again
C19_FailedBootstrapNotRetried ==
    /\ []((client # NoHandle /\ chat_session = NoHandle)
            => (chats_created = 0 /\ greeting_requests = 0 /\ GreetingTurns(history) = {}))
    /\ [][(client # NoHandle /\ NotBooting)
            => /\ client' = client
               /\ chat_session' = chat_session
               /\ chats_created' = chats_created
               /\ greeting_requests' = greeting_requests
               /\ GreetingTurns(history') = GreetingTurns(history)
               /\ pc' \notin {"init_send", "init_recv"}]_vars
    /\ [][(pc = "init" /\ client # NoHandle)
            => (pc' = "render" /\ shown' = shown /\ history' = history)]_vars
    /\ [][(pc = "init" /\ client = NoHandle)
            => (client' # NoHandle \/ "Failed to initialize chat" \in shown')]_vars

\* a later run skipped init_chat after the chat creation had failed
C19_Witness ==
    /\ reruns = 2
    /\ pc = "render"
    /\ client # NoHandle
    /\ chat_session = NoHandle
    /\ history = <<>>
    /\ shown = {}

\* a later run skipped init_chat after the greeting request had failed
C19_WitnessGreetingFailed ==
    /\ reruns = 2
    /\ pc = "render"
    /\ chat_session # NoHandle
    /\ greeting_requests = 1
    /\ GreetingTurns(history) = {}
    /\ shown = {}

\* a later run attempted the bootstrap again after the client construction failed
C19_WitnessClientRetried ==
    /\ reruns = 2
    /\ pc = "init_send"
    /\ prev_outcome = "NoClient"

====
